---- MODULE Spec2Model ----
(***************************************************************************)
(* Recursive-descent parsing of the exponentiation level of the expression *)
(* grammar (exponentiation.rs) and of the `var` statement (variable.rs).   *)
(*                                                                         *)
(* The productions are modelled as a stack machine: one frame per          *)
(* invocation of a production, one action per step of a production between *)
(* two cursor operations or calls.  The token stream is pulled lazily: a   *)
(* token is fixed the first time the cursor has to look at it, so every    *)
(* token sequence of at most MaxLen tokens is covered by the run that      *)
(* reveals exactly the tokens the parser inspects.                         *)
(*                                                                         *)
(* The Cursor, UnaryExpression, UpdateExpression and Initializer are not   *)
(* part of the two source files; they are modelled from the specification  *)
(* (sections 4.1 to 4.3).                                                  *)
(***************************************************************************)
EXTENDS Naturals, Sequences, FiniteSets

\* ------------------------------------------------------------------ bounds
\* longest token stream the lexer supplies
MaxLen == 7
\* most unary-operator tokens in one stream
MaxUnary == 2
\* most line-terminator tokens in one stream
MaxLT == 1

\* ------------------------------------------------------------------ tokens
Tok(k, v) == [kind |-> k, val |-> v]
KwVar == Tok("Keyword", "var")
KwDelete == Tok("Keyword", "delete")
KwVoid == Tok("Keyword", "void")
KwTypeOf == Tok("Keyword", "typeof")
PAdd == Tok("Punctuator", "+")
PSub == Tok("Punctuator", "-")
PNot == Tok("Punctuator", "!")
PNeg == Tok("Punctuator", "~")
PExp == Tok("Punctuator", "**")
PAssign == Tok("Punctuator", "=")
PComma == Tok("Punctuator", ",")
PSemicolon == Tok("Punctuator", ";")
PCloseBlock == Tok("Punctuator", "}")
LineTerminator == Tok("LineTerminator", "\\n")
IdentX == Tok("Identifier", "x")
IdentY == Tok("Identifier", "y")
Num1 == Tok("NumericLiteral", "1")

\* the tokens of the unary-operator set, as the language defines it
UnaryOpTokens == {KwDelete, KwVoid, KwTypeOf, PAdd, PSub, PNot, PNeg}
\* the tokens the lexer can supply
Alphabet ==
  {KwVar, PExp, PAssign, PComma, PSemicolon, PCloseBlock, LineTerminator,
   IdentX, IdentY, Num1} \cup UnaryOpTokens

VARIABLES
  production, \* the production the top-level caller runs
  tokens,     \* the tokens the lexer has supplied so far
  eof,        \* TRUE once the lexer has reported the end of the stream
  pos,        \* Cursor: number of tokens behind the cursor
  prev,       \* Cursor: the position saved by the most recent next()
  stack,      \* the active invocations, innermost last
  ret,        \* the result handed back by the invocation that returned last
  log         \* history of calls and cursor operations

vars == <<production, tokens, eof, pos, prev, stack, ret, log>>

\* ------------------------------------------------------------------ Cursor
RECURSIVE SkipFrom(_, _, _)
\* index of the token `skip` non-line-terminator tokens after index i, 0 if none
SkipFrom(toks, i, skip) ==
  IF i > Len(toks) THEN 0
  ELSE IF toks[i].kind = "LineTerminator" THEN SkipFrom(toks, i + 1, skip)
  ELSE IF skip = 0 THEN i
  ELSE SkipFrom(toks, i + 1, skip - 1)

\* Cursor::peek: index of the token `skip` tokens ahead, 0 for none
peek(toks, p, skip) == SkipFrom(toks, p + 1, skip)

\* Cursor::next: the token returned (0 for none) and the new position
next(toks, p) ==
  LET i == peek(toks, p, 0)
  IN [tok |-> i, pos |-> IF i = 0 THEN Len(toks) ELSE i, prev |-> p]

\* back() that leaves the cursor where it is
back_noop(p, saved) == p

\* Cursor::back: the position before the most recent next()
back(p, saved) == saved

\* Cursor::peek_semicolon: <<can terminate, index of the token looked at>>
peek_semicolon(toks, p, strict) ==
  IF p >= Len(toks) THEN <<TRUE, 0>>
  ELSE LET tk == toks[p + 1]
       IN IF tk = PSemicolon \/ tk = PCloseBlock THEN <<TRUE, p + 1>>
          ELSE IF tk.kind = "LineTerminator" THEN <<~strict, p + 1>>
          ELSE <<FALSE, p + 1>>

\* ParseError values
AbruptEnd == <<"AbruptEnd">>
Expected(exp, toks, i, routine) == <<"Expected", exp, toks[i].val, i, routine>>
Ok(v) == <<"Ok", v>>
Err(e) == <<"Err", e>>
NoRet == <<"None">>

\* Cursor::expect: the result and the new position
expect(toks, p, tk, routine) ==
  LET i == peek(toks, p, 0)
  IN IF i = 0 THEN [res |-> Err(AbruptEnd), pos |-> p, prev |-> p]
     ELSE IF toks[i] = tk THEN [res |-> Ok(<<>>), pos |-> i, prev |-> p]
     ELSE [res |-> Err(Expected(<<tk.val>>, toks, i, routine)), pos |-> p, prev |-> p]

\* Cursor::expect_semicolon: the result and the new position
expect_semicolon(toks, p, strict, routine) ==
  LET ps == peek_semicolon(toks, p, strict)
  IN IF ps[1]
     THEN [res |-> Ok(<<>>),
           pos |-> IF ps[2] # 0 /\ toks[ps[2]] # PCloseBlock THEN ps[2] ELSE p]
     ELSE [res |-> Err(Expected(<<";">>, toks, ps[2], routine)), pos |-> p]

\* ------------------------------------------------------------------ AST
Local(name) == <<"Local", name>>
Const(v) == <<"Const", v>>
unary_op(op, n) == <<"UnaryOp", op, n>>
bin_op(op, l, r) == <<"BinOp", op, l, r>>
VarDecl(list) == <<"VarDecl", list>>
None == <<"None">>
Some(n) == <<"Some", n>>

\* ------------------------------------------------------------------ frames
Top == stack[Len(stack)]
At(proc, pc) == stack # <<>> /\ Top.proc = proc /\ Top.pc = pc
Frame(proc, id, entry) ==
  [proc |-> proc, pc |-> "start", id |-> id, entry |-> entry, loc |-> <<>>]
Goto(pc, loc) ==
  [stack EXCEPT ![Len(stack)] = [@ EXCEPT !.pc = pc, !.loc = loc]]
\* a cursor operation of the running invocation, with the position it found
\* the cursor at and the token it returned
Ev(ev, tok) ==
  [ev |-> ev, id |-> Top.id, proc |-> Top.proc, at |-> pos, tok |-> tok]
CallEv(callee, id) == [ev |-> "call", id |-> id, proc |-> callee, at |-> 0, tok |-> 0]

\* the running invocation calls `callee` and waits at pc
DoCall(pc, loc, callee, p, pv, evs) ==
  LET id == Len(log) + Len(evs) + 1
  IN /\ stack' = Append(Goto(pc, loc), Frame(callee, id, p))
     /\ log' = log \o evs \o <<CallEv(callee, id)>>
     /\ pos' = p /\ prev' = pv /\ ret' = NoRet
     /\ UNCHANGED <<production, tokens, eof>>

\* the running invocation returns r to its caller
DoReturn(r, p, pv, evs) ==
  /\ stack' = SubSeq(stack, 1, Len(stack) - 1)
  /\ log' = log \o evs
  /\ pos' = p /\ prev' = pv /\ ret' = r
  /\ UNCHANGED <<production, tokens, eof>>

\* the running invocation goes on to pc
DoGoto(pc, loc, p, pv, evs) ==
  /\ stack' = Goto(pc, loc)
  /\ log' = log \o evs
  /\ pos' = p /\ prev' = pv /\ ret' = NoRet
  /\ UNCHANGED <<production, tokens, eof>>

\* ------------------------------------------------------------------ lexer
\* the steps that look at the next token, line terminators skipped
ReadPcs ==
  {<<"ExponentiationExpression", "start">>, <<"ExponentiationExpression", "next">>,
   <<"UnaryExpression", "start">>, <<"UpdateExpression", "start">>,
   <<"VariableStatement", "start">>, <<"VariableDeclarationList", "comma">>,
   <<"VariableDeclaration", "start">>, <<"VariableDeclaration", "peek">>,
   <<"Initializer", "start">>}
\* the steps that look at the token right at the cursor
RawPcs ==
  {<<"VariableStatement", "semicolon">>,
   <<"VariableDeclarationList", "peek_semicolon">>}
ReadReady == eof \/ peek(tokens, pos, 0) # 0
RawReady == eof \/ pos < Len(tokens)
\* the cursor has to look at a token the lexer has not supplied yet
Starved ==
  IF stack = <<>> THEN peek(tokens, pos, 0) = 0
  ELSE \/ <<Top.proc, Top.pc>> \in ReadPcs /\ ~ReadReady
       \/ <<Top.proc, Top.pc>> \in RawPcs /\ ~RawReady
Count(S) == Cardinality({i \in 1..Len(tokens) : tokens[i] \in S})

\* the lexer supplies the next token
LexToken ==
  /\ ~eof /\ Starved /\ Len(tokens) < MaxLen
  /\ \E t \in Alphabet :
       /\ t \in UnaryOpTokens => Count(UnaryOpTokens) < MaxUnary
       /\ t = LineTerminator => Count({LineTerminator}) < MaxLT
       /\ tokens' = Append(tokens, t)
  /\ UNCHANGED <<production, eof, pos, prev, stack, ret, log>>

\* the lexer reports the end of the stream
LexEnd ==
  /\ ~eof /\ Starved
  /\ eof' = TRUE
  /\ UNCHANGED <<production, tokens, pos, prev, stack, ret, log>>

\* ------------------------------------------------------------------ exponentiation.rs
\* is_unary_expression with the bitwise-not arm missing
is_unary_expression_no_neg(toks, p) ==
  LET i == peek(toks, p, 0)
  IN i # 0 /\ toks[i] \in {KwDelete, KwVoid, KwTypeOf, PAdd, PSub, PNot}

\* ExponentiationExpression::is_unary_expression
is_unary_expression(toks, p) ==
  LET i == peek(toks, p, 0)
  IN IF i # 0
     THEN \/ toks[i] = KwDelete
          \/ toks[i] = KwVoid
          \/ toks[i] = KwTypeOf
          \/ toks[i] = PAdd
          \/ toks[i] = PSub
          \/ toks[i] = PNot
          \/ toks[i] = PNeg
     ELSE FALSE

\* the unary check made by the outermost invocation only
ExpStart_entry_only ==
  /\ At("ExponentiationExpression", "start") /\ ReadReady
  /\ LET evs == <<Ev("peek", peek(tokens, pos, 0))>>
     IN IF is_unary_expression(tokens, pos) /\ Top.entry = 0
        THEN DoCall("unary_ret", <<>>, "UnaryExpression", pos, prev, evs)
        ELSE DoCall("lhs_ret", <<>>, "UpdateExpression", pos, prev, evs)

\* the unary check made with next() in place of peek(0)
ExpStart_consuming ==
  /\ At("ExponentiationExpression", "start") /\ ReadReady
  /\ LET n == next(tokens, pos)
         evs == <<Ev("next", n.tok)>>
     IN IF is_unary_expression(tokens, pos)
        THEN DoCall("unary_ret", <<>>, "UnaryExpression", n.pos, n.prev, evs)
        ELSE DoCall("lhs_ret", <<>>, "UpdateExpression", n.pos, n.prev, evs)

\* parse, lines 79-85: the unary check, then the call of the operand parser
ExpStart ==
  /\ At("ExponentiationExpression", "start") /\ ReadReady
  /\ LET evs == <<Ev("peek", peek(tokens, pos, 0))>>
     IN IF is_unary_expression(tokens, pos)
        THEN DoCall("unary_ret", <<>>, "UnaryExpression", pos, prev, evs)
        ELSE DoCall("lhs_ret", <<>>, "UpdateExpression", pos, prev, evs)

\* the `return` of line 80 missing: the unary result becomes the left operand
ExpUnaryRet_fallthrough ==
  /\ At("ExponentiationExpression", "unary_ret")
  /\ IF ret[1] = "Err"
     THEN DoReturn(ret, pos, prev, <<>>)
     ELSE DoGoto("next", ret[2], pos, prev, <<>>)

\* parse, lines 80-81: return the result of UnaryExpression
ExpUnaryRet ==
  /\ At("ExponentiationExpression", "unary_ret")
  /\ DoReturn(ret, pos, prev, <<>>)

\* parse, lines 84-85: `?` on the result of UpdateExpression
ExpLhsRet ==
  /\ At("ExponentiationExpression", "lhs_ret")
  /\ IF ret[1] = "Err"
     THEN DoReturn(ret, pos, prev, <<>>)
     ELSE DoGoto("next", ret[2], pos, prev, <<>>)

\* cursor.back() called after the `if let` of line 86, also for none
ExpNext_back_on_none ==
  /\ At("ExponentiationExpression", "next") /\ ReadReady
  /\ LET n == next(tokens, pos)
         evs == <<Ev("next", n.tok)>>
     IN IF n.tok # 0 /\ tokens[n.tok] = PExp
        THEN DoCall("rhs_ret", Top.loc, "ExponentiationExpression", n.pos, n.prev, evs)
        ELSE DoGoto("back", Top.loc, n.pos, n.prev, evs)

\* the end of the stream after the left operand taken for an error
ExpNext_abrupt ==
  /\ At("ExponentiationExpression", "next") /\ ReadReady
  /\ LET n == next(tokens, pos)
         evs == <<Ev("next", n.tok)>>
     IN IF n.tok = 0
        THEN DoReturn(Err(AbruptEnd), n.pos, n.prev, evs)
        ELSE IF tokens[n.tok] = PExp
        THEN DoCall("rhs_ret", Top.loc, "ExponentiationExpression", n.pos, n.prev, evs)
        ELSE DoGoto("back", Top.loc, n.pos, n.prev, evs)

\* parse, lines 86-93 and 97: cursor.next() and the test for `**`
ExpNext ==
  /\ At("ExponentiationExpression", "next") /\ ReadReady
  /\ LET n == next(tokens, pos)
         evs == <<Ev("next", n.tok)>>
     IN IF n.tok = 0
        THEN DoReturn(Ok(Top.loc), n.pos, n.prev, evs)
        ELSE IF tokens[n.tok] = PExp
        THEN DoCall("rhs_ret", Top.loc, "ExponentiationExpression", n.pos, n.prev, evs)
        ELSE DoGoto("back", Top.loc, n.pos, n.prev, evs)

\* the else branch of line 93 missing: Ok(lhs) without cursor.back()
ExpBack_no_back ==
  /\ At("ExponentiationExpression", "back")
  /\ DoReturn(Ok(Top.loc), pos, prev, <<>>)

\* parse, lines 94 and 97: cursor.back(), then Ok(lhs)
ExpBack ==
  /\ At("ExponentiationExpression", "back")
  /\ DoReturn(Ok(Top.loc), back(pos, prev), prev, <<Ev("back", 0)>>)

\* a failed right operand answered with the left operand
ExpRhsRet_lhs_on_error ==
  /\ At("ExponentiationExpression", "rhs_ret")
  /\ IF ret[1] = "Err"
     THEN DoReturn(Ok(Top.loc), pos, prev, <<>>)
     ELSE DoReturn(Ok(bin_op("Exp", Top.loc, ret[2])), pos, prev, <<>>)

\* the operands of the binary node swapped
ExpRhsRet_swapped ==
  /\ At("ExponentiationExpression", "rhs_ret")
  /\ IF ret[1] = "Err"
     THEN DoReturn(ret, pos, prev, <<>>)
     ELSE DoReturn(Ok(bin_op("Exp", ret[2], Top.loc)), pos, prev, <<>>)

\* parse, lines 88-92: `?` on the right operand, then the binary node
ExpRhsRet ==
  /\ At("ExponentiationExpression", "rhs_ret")
  /\ IF ret[1] = "Err"
     THEN DoReturn(ret, pos, prev, <<>>)
     ELSE DoReturn(Ok(bin_op("Exp", Top.loc, ret[2])), pos, prev, <<>>)

\* ------------------------------------------------------------------ operand parsers
\* UnaryExpression::parse: consume a token, a unary operator or not
UnaryNext ==
  /\ At("UnaryExpression", "start") /\ ReadReady
  /\ LET n == next(tokens, pos)
         evs == <<Ev("next", n.tok)>>
     IN IF n.tok = 0
        THEN DoReturn(Err(AbruptEnd), n.pos, n.prev, evs)
        ELSE IF tokens[n.tok] \in UnaryOpTokens
        THEN DoCall("operand_ret", <<tokens[n.tok].val>>, "UnaryExpression",
                    n.pos, n.prev, evs)
        ELSE DoGoto("back", <<>>, n.pos, n.prev, evs)

\* UnaryExpression::parse: not an operator, push it back and parse an update expression
UnaryBack ==
  /\ At("UnaryExpression", "back")
  /\ DoCall("update_ret", <<>>, "UpdateExpression", back(pos, prev), prev,
            <<Ev("back", 0)>>)

\* UnaryExpression::parse: the unary node over the operand
UnaryOperandRet ==
  /\ At("UnaryExpression", "operand_ret")
  /\ IF ret[1] = "Err"
     THEN DoReturn(ret, pos, prev, <<>>)
     ELSE DoReturn(Ok(unary_op(Top.loc[1], ret[2])), pos, prev, <<>>)

\* UnaryExpression::parse: the result of UpdateExpression
UnaryUpdateRet ==
  /\ At("UnaryExpression", "update_ret")
  /\ DoReturn(ret, pos, prev, <<>>)

\* UpdateExpression::parse: one operand, an identifier or a literal
UpdateParse ==
  /\ At("UpdateExpression", "start") /\ ReadReady
  /\ LET n == next(tokens, pos)
         evs == <<Ev("next", n.tok)>>
     IN IF n.tok = 0
        THEN DoReturn(Err(AbruptEnd), n.pos, n.prev, evs)
        ELSE IF tokens[n.tok].kind = "Identifier"
        THEN DoReturn(Ok(Local(tokens[n.tok].val)), n.pos, n.prev, evs)
        ELSE IF tokens[n.tok].kind = "NumericLiteral"
        THEN DoReturn(Ok(Const(tokens[n.tok].val)), n.pos, n.prev, evs)
        ELSE DoReturn(Err(Expected(<<"identifier", "literal">>, tokens, n.tok,
                                   "primary expression")),
                      n.pos, n.prev, evs)

\* ------------------------------------------------------------------ variable.rs
\* the `?` of line 47 missing: the result of expect is dropped
VarStmtExpectVar_unchecked ==
  /\ At("VariableStatement", "start") /\ ReadReady
  /\ LET e == expect(tokens, pos, KwVar, "variable statement")
         evs == <<Ev("expect", peek(tokens, pos, 0))>>
     IN DoCall("list_ret", <<>>, "VariableDeclarationList", e.pos, e.prev, evs)

\* VariableStatement::parse, lines 47-50: expect `var`, then the declaration list
VarStmtExpectVar ==
  /\ At("VariableStatement", "start") /\ ReadReady
  /\ LET e == expect(tokens, pos, KwVar, "variable statement")
         evs == <<Ev("expect", peek(tokens, pos, 0))>>
     IN IF e.res[1] = "Err"
        THEN DoReturn(e.res, e.pos, e.prev, evs)
        ELSE DoCall("list_ret", <<>>, "VariableDeclarationList", e.pos, e.prev, evs)

\* VariableStatement::parse, lines 49-50: `?` on the declaration list
VarStmtListRet ==
  /\ At("VariableStatement", "list_ret")
  /\ IF ret[1] = "Err"
     THEN DoReturn(ret, pos, prev, <<>>)
     ELSE DoGoto("semicolon", ret[2], pos, prev, <<>>)

\* expect_semicolon called with strict = true
VarStmtSemicolon_strict ==
  /\ At("VariableStatement", "semicolon") /\ RawReady
  /\ LET e == expect_semicolon(tokens, pos, TRUE, "variable statement")
         evs == <<Ev("expect_semicolon", IF pos < Len(tokens) THEN pos + 1 ELSE 0)>>
     IN IF e.res[1] = "Err"
        THEN DoReturn(e.res, e.pos, prev, evs)
        ELSE DoReturn(Ok(Top.loc), e.pos, prev, evs)

\* VariableStatement::parse, lines 52-54: expect_semicolon, then Ok(decl_list)
VarStmtSemicolon ==
  /\ At("VariableStatement", "semicolon") /\ RawReady
  /\ LET e == expect_semicolon(tokens, pos, FALSE, "variable statement")
         evs == <<Ev("expect_semicolon", IF pos < Len(tokens) THEN pos + 1 ELSE 0)>>
     IN IF e.res[1] = "Err"
        THEN DoReturn(e.res, e.pos, prev, evs)
        ELSE DoReturn(Ok(Top.loc), e.pos, prev, evs)

\* VariableDeclarationList::parse, lines 99-103: the loop calls VariableDeclaration
DeclListLoop ==
  /\ At("VariableDeclarationList", "start")
  /\ DoCall("decl_ret", Top.loc, "VariableDeclaration", pos, prev, <<>>)

\* a failed declarator after the first ends the list instead of the parse
DeclListDeclRet_break ==
  /\ At("VariableDeclarationList", "decl_ret")
  /\ IF ret[1] = "Err"
     THEN IF Top.loc = <<>>
          THEN DoReturn(ret, pos, prev, <<>>)
          ELSE DoReturn(Ok(VarDecl(Top.loc)), pos, prev, <<>>)
     ELSE DoGoto("peek_semicolon", Append(Top.loc, ret[2]), pos, prev, <<>>)

\* the declaration put at the front of the list
DeclListDeclRet_prepend ==
  /\ At("VariableDeclarationList", "decl_ret")
  /\ IF ret[1] = "Err"
     THEN DoReturn(ret, pos, prev, <<>>)
     ELSE DoGoto("peek_semicolon", <<ret[2]>> \o Top.loc, pos, prev, <<>>)

\* VariableDeclarationList::parse, lines 100-103: `?`, then list.push
DeclListDeclRet ==
  /\ At("VariableDeclarationList", "decl_ret")
  /\ IF ret[1] = "Err"
     THEN DoReturn(ret, pos, prev, <<>>)
     ELSE DoGoto("peek_semicolon", Append(Top.loc, ret[2]), pos, prev, <<>>)

\* the first arm written (true, Some(_)): the end of the stream falls through
DeclListPeekSemicolon_some_only ==
  /\ At("VariableDeclarationList", "peek_semicolon") /\ RawReady
  /\ LET ps == peek_semicolon(tokens, pos, FALSE)
         evs == <<Ev("peek_semicolon", ps[2])>>
     IN IF ps[1] /\ ps[2] # 0
        THEN DoReturn(Ok(VarDecl(Top.loc)), pos, prev, evs)
        ELSE IF ps[2] # 0 /\ tokens[ps[2]] = PComma
        THEN DoGoto("comma", Top.loc, pos, prev, evs)
        ELSE IF ps[2] # 0
        THEN DoReturn(Err(Expected(<<";", ",">>, tokens, ps[2], "lexical declaration")),
                      pos, prev, evs)
        ELSE /\ stack' = <<>>
             /\ ret' = <<"Panic", "unreachable">>
             /\ log' = log \o evs
             /\ UNCHANGED <<production, tokens, eof, pos, prev>>

\* the comma arm without its guard: any token that ends no statement is skipped
DeclListPeekSemicolon_no_guard ==
  /\ At("VariableDeclarationList", "peek_semicolon") /\ RawReady
  /\ LET ps == peek_semicolon(tokens, pos, FALSE)
         evs == <<Ev("peek_semicolon", ps[2])>>
     IN IF ps[1]
        THEN DoReturn(Ok(VarDecl(Top.loc)), pos, prev, evs)
        ELSE DoGoto("comma", Top.loc, pos, prev, evs)

\* VariableDeclarationList::parse, lines 105-122 and 125: the match on peek_semicolon
DeclListPeekSemicolon ==
  /\ At("VariableDeclarationList", "peek_semicolon") /\ RawReady
  /\ LET ps == peek_semicolon(tokens, pos, FALSE)
         evs == <<Ev("peek_semicolon", ps[2])>>
     IN IF ps[1]
        THEN DoReturn(Ok(VarDecl(Top.loc)), pos, prev, evs)
        ELSE IF ps[2] # 0 /\ tokens[ps[2]] = PComma
        THEN DoGoto("comma", Top.loc, pos, prev, evs)
        ELSE IF ps[2] # 0
        THEN DoReturn(Err(Expected(<<";", ",">>, tokens, ps[2], "lexical declaration")),
                      pos, prev, evs)
        ELSE /\ stack' = <<>>
             /\ ret' = <<"Panic", "unreachable">>
             /\ log' = log \o evs
             /\ UNCHANGED <<production, tokens, eof, pos, prev>>

\* line 108 missing: the loop goes round without consuming the comma
DeclListComma_no_consume ==
  /\ At("VariableDeclarationList", "comma") /\ ReadReady
  /\ DoGoto("start", Top.loc, pos, prev, <<>>)

\* VariableDeclarationList::parse, line 108: the comma is consumed
DeclListComma ==
  /\ At("VariableDeclarationList", "comma") /\ ReadReady
  /\ LET n == next(tokens, pos)
     IN DoGoto("start", Top.loc, n.pos, n.prev, <<Ev("next", n.tok)>>)

\* the identifier test taken for a test against punctuators
DeclNext_any_name ==
  /\ At("VariableDeclaration", "start") /\ ReadReady
  /\ LET n == next(tokens, pos)
         evs == <<Ev("next", n.tok)>>
     IN IF n.tok = 0
        THEN DoReturn(Err(AbruptEnd), n.pos, n.prev, evs)
        ELSE IF tokens[n.tok].kind # "Punctuator"
        THEN DoGoto("peek", <<tokens[n.tok].val>>, n.pos, n.prev, evs)
        ELSE DoReturn(Err(Expected(<<"identifier">>, tokens, n.tok,
                                   "variable declaration")),
                      n.pos, n.prev, evs)

\* VariableDeclaration::parse, lines 166-176: the identifier
DeclNext ==
  /\ At("VariableDeclaration", "start") /\ ReadReady
  /\ LET n == next(tokens, pos)
         evs == <<Ev("next", n.tok)>>
     IN IF n.tok = 0
        THEN DoReturn(Err(AbruptEnd), n.pos, n.prev, evs)
        ELSE IF tokens[n.tok].kind = "Identifier"
        THEN DoGoto("peek", <<tokens[n.tok].val>>, n.pos, n.prev, evs)
        ELSE DoReturn(Err(Expected(<<"identifier">>, tokens, n.tok,
                                   "variable declaration")),
                      n.pos, n.prev, evs)

\* VariableDeclaration::parse, lines 178-187: the optional initializer
DeclPeek ==
  /\ At("VariableDeclaration", "peek") /\ ReadReady
  /\ LET i == peek(tokens, pos, 0)
         evs == <<Ev("peek", i)>>
     IN IF i # 0 /\ tokens[i] = PAssign
        THEN DoCall("init_ret", Top.loc, "Initializer", pos, prev, evs)
        ELSE DoReturn(Ok(<<Top.loc[1], None>>), pos, prev, evs)

\* VariableDeclaration::parse, lines 179-185: `?` on the initializer
DeclInitRet ==
  /\ At("VariableDeclaration", "init_ret")
  /\ IF ret[1] = "Err"
     THEN DoReturn(ret, pos, prev, <<>>)
     ELSE DoReturn(Ok(<<Top.loc[1], Some(ret[2])>>), pos, prev, <<>>)

\* Initializer::parse: expect `=`, then the initializer expression
InitExpect ==
  /\ At("Initializer", "start") /\ ReadReady
  /\ LET e == expect(tokens, pos, PAssign, "initializer")
         evs == <<Ev("expect", peek(tokens, pos, 0))>>
     IN IF e.res[1] = "Err"
        THEN DoReturn(e.res, e.pos, e.prev, evs)
        ELSE DoCall("expr_ret", <<>>, "ExponentiationExpression", e.pos, e.prev, evs)

\* Initializer::parse: the result of the initializer expression
InitExprRet ==
  /\ At("Initializer", "expr_ret")
  /\ DoReturn(ret, pos, prev, <<>>)

\* ------------------------------------------------------------------ specification
Productions == {"ExponentiationExpression", "VariableStatement"}

Init ==
  /\ production \in Productions
  /\ tokens = <<>>
  /\ eof = FALSE
  /\ pos = 0
  /\ prev = 0
  /\ stack = <<Frame(production, 1, 0)>>
  /\ ret = NoRet
  /\ log = <<CallEv(production, 1)>>

Next ==
  \/ LexToken
  \/ LexEnd
  \/ ExpStart
  \/ ExpUnaryRet
  \/ ExpLhsRet
  \/ ExpNext
  \/ ExpBack
  \/ ExpRhsRet
  \/ UnaryNext
  \/ UnaryBack
  \/ UnaryOperandRet
  \/ UnaryUpdateRet
  \/ UpdateParse
  \/ VarStmtExpectVar
  \/ VarStmtListRet
  \/ VarStmtSemicolon
  \/ DeclListLoop
  \/ DeclListDeclRet
  \/ DeclListPeekSemicolon
  \/ DeclListComma
  \/ DeclNext
  \/ DeclPeek
  \/ DeclInitRet
  \/ InitExpect
  \/ InitExprRet

Spec == Init /\ [][Next]_vars

\* the parser is synchronous, single-threaded code over a pull source: a step
\* that can be taken is taken
FairSpec == Spec /\ WF_vars(Next)

Done == stack = <<>>

\* ------------------------------------------------------------------ properties
IsLT(t) == t.kind = "LineTerminator"
NotLT(t) == t.kind # "LineTerminator"
\* the tokens supplied, line terminators left out
Toks == SelectSeq(tokens, NotLT)
IsOperand(t) == t.kind \in {"Identifier", "NumericLiteral"}
OperandNode(t) == IF t.kind = "Identifier" THEN Local(t.val) ELSE Const(t.val)

RECURSIVE ChainEnd(_, _)
\* last index of the longest run  operand (** operand)*  that starts at operand i
ChainEnd(ts, i) ==
  IF i + 2 <= Len(ts) /\ ts[i + 1] = PExp /\ IsOperand(ts[i + 2])
  THEN ChainEnd(ts, i + 2)
  ELSE i

RECURSIVE RightNest(_, _, _)
\* Exp(op_i, Exp(op_i+2, ... op_n))
RightNest(ts, i, n) ==
  IF i >= n THEN OperandNode(ts[i])
  ELSE bin_op("Exp", OperandNode(ts[i]), RightNest(ts, i + 2, n))

\* the stream is  op1 ** op2 ** ... ** opN, N >= 2, and what follows is no `**`
IsExpChain(ts) ==
  /\ Len(ts) >= 3 /\ IsOperand(ts[1])
  /\ LET n == ChainEnd(ts, 1)
     IN n >= 3 /\ (n = Len(ts) \/ ts[n + 1] # PExp)

\* C1: a chain op1 ** op2 ** ... ** opN of operands that start with no unary
\* operator parses to the Exp node nested to the right,
\* Exp(op1, Exp(op2, ... Exp(opN-1, opN))).
C1_RightAssociative ==
  (Done /\ production = "ExponentiationExpression" /\ IsExpChain(Toks))
    => ret = Ok(RightNest(Toks, 1, ChainEnd(Toks, 1)))

\* x ** y ** 1 at the end of the stream has been parsed to Exp(x, Exp(y, 1))
C1_Witness ==
  /\ Done /\ production = "ExponentiationExpression" /\ eof
  /\ Toks = <<IdentX, PExp, IdentY, PExp, Num1>>
  /\ ret = Ok(bin_op("Exp", Local("x"), bin_op("Exp", Local("y"), Const("1"))))

\* the events of invocation id that move the cursor
Moves(id) ==
  {j \in 1..Len(log) : log[j].id = id
                       /\ log[j].ev \in {"next", "back", "expect", "expect_semicolon"}}
\* the token peeked at position p belongs to the unary-operator set
UnaryAt(p) == LET i == peek(tokens, p, 0) IN i # 0 /\ tokens[i] \in UnaryOpTokens

\* every invocation of ExponentiationExpression::parse entered at a unary
\* operator has called UnaryExpression at its entry position, and has moved
\* the cursor itself by no next() and no back()
C2_Delegated ==
  \A k \in 1..Len(stack) :
    (stack[k].proc = "ExponentiationExpression" /\ stack[k].pc # "start"
     /\ UnaryAt(stack[k].entry))
      => /\ stack[k].pc = "unary_ret"
         /\ Moves(stack[k].id) = {}
         /\ \E j \in 2..Len(log) :
              /\ log[j] = CallEv("UnaryExpression", j)
              /\ log[j - 1].id = stack[k].id /\ log[j - 1].ev = "peek"
         /\ k < Len(stack) => /\ stack[k + 1].proc = "UnaryExpression"
                              /\ stack[k + 1].entry = stack[k].entry

\* such an invocation hands the result of UnaryExpression to its caller as it is
C2_ReturnsUnaryResult ==
  (At("ExponentiationExpression", "unary_ret") /\ UnaryAt(Top.entry))
    => /\ ret' = ret /\ pos' = pos /\ log' = log
       /\ stack' = SubSeq(stack, 1, Len(stack) - 1)

\* C2: entered with a peeked token in {delete, void, typeof, +, -, !, ~},
\* ExponentiationExpression::parse returns exactly the result of the
\* unary-expression production started at the same cursor position, and
\* performs no next() and no back() itself.
C2_UnaryDelegation == [](C2_Delegated) /\ [][C2_ReturnsUnaryResult]_vars

\* an invocation entered at `~` has the result of UnaryExpression in hand
C2_Witness ==
  /\ At("ExponentiationExpression", "unary_ret") /\ ret[1] = "Ok"
  /\ tokens[peek(tokens, Top.entry, 0)] = PNeg

RECURSIVE UnaryRun(_, _)
\* number of unary-operator tokens in a row from index i on
UnaryRun(ts, i) ==
  IF i <= Len(ts) /\ ts[i] \in UnaryOpTokens THEN 1 + UnaryRun(ts, i + 1) ELSE 0

RECURSIVE UnaryNest(_, _, _)
\* the unary nodes of the operators i..k-1 over the operand k
UnaryNest(ts, i, k) ==
  IF i >= k THEN OperandNode(ts[k])
  ELSE unary_op(ts[i].val, UnaryNest(ts, i + 1, k))

\* the stream starts with unary operators, one operand and `**`  (- x ** ...)
IsUnaryBeforeExp(ts) ==
  LET u == UnaryRun(ts, 1)
  IN u >= 1 /\ Len(ts) >= u + 2 /\ IsOperand(ts[u + 1]) /\ ts[u + 2] = PExp

\* the tokens taken from the stream by next() or expect()
Taken ==
  {log[j].tok : j \in {i \in 1..Len(log) : log[i].ev \in {"next", "expect"}}}

NTaken(p) == Len(SelectSeq(SubSeq(tokens, 1, p), NotLT))
\* the declarator positions of the consumed tokens: after `var`, after each comma
DeclStarts ==
  {2} \cup {k + 1 : k \in {i \in 2..NTaken(pos) : Toks[i] = PComma}}
Kth(S, k) == CHOOSE d \in S : Cardinality({e \in S : e < d}) = k - 1
Range(f) == {f[i] : i \in 1..Len(f)}

\* entry k of the list is the declarator at index d of the tokens
IsDeclarator(entry, ts, d) ==
  /\ d <= Len(ts) /\ ts[d].kind = "Identifier"
  /\ entry[1] = ts[d].val
  /\ (entry[2][1] = "Some") <=> (d + 1 <= Len(ts) /\ ts[d + 1] = PAssign)
  /\ (/\ d + 2 <= Len(ts) /\ ts[d + 1] = PAssign /\ IsOperand(ts[d + 2])
      /\ (d + 2 = Len(ts) \/ ts[d + 3] # PExp))
       => entry[2] = Some(OperandNode(ts[d + 2]))

\* C4: a successful parse of a var statement returns one VarDecl node whose list
\* is non-empty and has one (symbol, optional initializer) entry per declarator,
\* in source order, with an initializer iff `=` follows the identifier.
C4_DeclarationList ==
  (Done /\ production = "VariableStatement" /\ ret[1] = "Ok")
    => /\ ret[2][1] = "VarDecl"
       /\ Len(ret[2][2]) >= 1
       /\ Len(ret[2][2]) = Cardinality(DeclStarts)
       /\ \A k \in 1..Len(ret[2][2]) :
            IsDeclarator(ret[2][2][k], Toks, Kth(DeclStarts, k))

\* var x = 1, y;  has been parsed to [(x, some(1)), (y, none)]
C4_Witness ==
  /\ Done /\ production = "VariableStatement"
  /\ tokens = <<KwVar, IdentX, PAssign, Num1, PComma, IdentY, PSemicolon>>
  /\ ret = Ok(VarDecl(<< <<"x", Some(Const("1"))>>, <<"y", None>> >>))

\* the peek_semicolon calls of the declaration list
PeekSemicolons == {j \in 1..Len(log) : log[j].ev = "peek_semicolon"}

\* C5: after the last declarator the var statement succeeds when the next token
\* is `;` (then consumed), when it is `}` or the stream has ended (nothing
\* consumed), or when a line terminator comes first (the next token is not
\* consumed).
C5_Termination ==
  (Done /\ production = "VariableStatement")
    => \A j \in PeekSemicolons :
         LET i == log[j].tok
             before == log[j].at
         IN /\ (i = 0 \/ tokens[i] = PCloseBlock)
                 => ret[1] = "Ok" /\ ret[2][1] = "VarDecl" /\ pos = before
            /\ (i # 0 /\ tokens[i] = PSemicolon)
                 => ret[1] = "Ok" /\ ret[2][1] = "VarDecl" /\ pos = i
            /\ (i # 0 /\ IsLT(tokens[i]))
                 => /\ ret[1] = "Ok" /\ ret[2][1] = "VarDecl"
                    /\ peek(tokens, pos, 0) = peek(tokens, before, 0)

\* var x, a line terminator and a further token: the statement has succeeded
\* and the further token is still ahead of the cursor
C5_Witness ==
  /\ Done /\ production = "VariableStatement" /\ ret[1] = "Ok"
  /\ Len(tokens) = 4 /\ SubSeq(tokens, 1, 3) = <<KwVar, IdentX, LineTerminator>>
  /\ peek(tokens, pos, 0) = 4

\* C6: a declarator followed on the same line by a token that is neither `,`
\* nor `;` nor `}` makes the declaration list fail with an expected-but-found
\* diagnostic: expected {semicolon, comma}, found that token at its position.
C6_ExpectedSemicolonComma ==
  \A j \in PeekSemicolons :
    LET i == log[j].tok
    IN (i # 0 /\ tokens[i] \notin {PComma, PSemicolon, PCloseBlock, LineTerminator})
         => /\ ret[1] = "Err" /\ ret[2][1] = "Expected"
            /\ Range(ret[2][2]) = {";", ","}
            /\ ret[2][3] = tokens[i].val /\ ret[2][4] = i
            /\ \A k \in 1..Len(stack) : stack[k].id # log[j].id

\* var x y : the statement has failed on y
C6_Witness ==
  /\ Done /\ production = "VariableStatement"
  /\ tokens = <<KwVar, IdentX, IdentY>>
  /\ ret = Err(<<"Expected", <<";", ",">>, "y", 3, "lexical declaration">>)

\* the events after which a declarator has to follow: `var` taken by the
\* statement, a comma taken by the declaration list
DeclaratorDue ==
  {j \in 1..Len(log) :
     /\ log[j].tok # 0
     /\ \/ /\ log[j].proc = "VariableStatement" /\ log[j].ev = "expect"
           /\ tokens[log[j].tok] = KwVar
        \/ /\ log[j].proc = "VariableDeclarationList" /\ log[j].ev = "next"
           /\ tokens[log[j].tok] = PComma}

\* C7: at every declarator position (after `var`, after each `,`) a next token
\* that is no identifier makes the parse fail with an expected-but-found
\* diagnostic: expected {"identifier"}, at the position of that token.
C7_ExpectedIdentifier ==
  (Done /\ production = "VariableStatement")
    => \A j \in DeclaratorDue :
         LET i == peek(tokens, log[j].tok, 0)
         IN (i # 0 /\ tokens[i].kind # "Identifier")
              => /\ ret[1] = "Err" /\ ret[2][1] = "Expected"
                 /\ Range(ret[2][2]) = {"identifier"}
                 /\ ret[2][3] = tokens[i].val /\ ret[2][4] = i

\* var x, 1 : the statement has failed on the literal after the comma
C7_Witness ==
  /\ Done /\ production = "VariableStatement"
  /\ tokens = <<KwVar, IdentX, PComma, Num1>>
  /\ ret = Err(<<"Expected", <<"identifier">>, "1", 4, "variable declaration">>)

\* C8: when the stream ends where a declarator identifier is required (after
\* `var`, after a `,`), the var statement fails with the abrupt-end diagnostic.
C8_AbruptEnd ==
  (Done /\ production = "VariableStatement")
    => \A j \in DeclaratorDue :
         (eof /\ peek(tokens, log[j].tok, 0) = 0) => ret = Err(AbruptEnd)

\* var x ,  and the end of the stream: the statement has failed
C8_Witness ==
  /\ Done /\ production = "VariableStatement" /\ eof
  /\ tokens = <<KwVar, IdentX, PComma>>
  /\ ret = Err(AbruptEnd)

\* C9: a first token that is not `var` makes VariableStatement::parse fail
\* with an expected-but-found diagnostic labelled "variable statement", and
\* VariableDeclarationList::parse is never entered.
C9_MissingVar ==
  LET i == peek(tokens, 0, 0)
  IN (production = "VariableStatement" /\ i # 0 /\ tokens[i] # KwVar)
       => /\ \A j \in 1..Len(log) : log[j].proc # "VariableDeclarationList"
          /\ \A k \in 1..Len(stack) : stack[k].proc = "VariableStatement"
          /\ Done => /\ ret[1] = "Err" /\ ret[2][1] = "Expected"
                     /\ ret[2][3] = tokens[i].val /\ ret[2][4] = i
                     /\ ret[2][5] = "variable statement"

\* x : the statement has failed on the identifier
C9_Witness ==
  /\ Done /\ production = "VariableStatement"
  /\ tokens = <<IdentX>>
  /\ ret = Err(<<"Expected", <<"var">>, "x", 1, "variable statement">>)

IsCursorEv(e) == e.ev # "call"
\* the cursor operations in the order they were made
CursorLog == SelectSeq(log, IsCursorEv)
\* next() that returned a token, back(), next() made in a row, from k on
BackNextAt(cl, k) ==
  /\ k + 2 <= Len(cl)
  /\ cl[k].ev = "next" /\ cl[k].tok # 0
  /\ cl[k + 1].ev = "back"
  /\ cl[k + 2].ev = "next"

\* C10: right after a next() that returned a token, back() followed by next()
\* returns the same token and leaves the cursor at the same position.
C10_BackNext ==
  LET cl == CursorLog
      n == Len(cl)
  IN /\ (n # 0 /\ cl[n].ev = "next" /\ cl[n].tok # 0)
          => LET nx == next(tokens, back(pos, prev))
             IN nx.tok = cl[n].tok /\ nx.pos = pos /\ back(pos, prev) = cl[n].at
     /\ \A k \in 1..n :
          BackNextAt(cl, k) => /\ cl[k + 2].tok = cl[k].tok
                               /\ cl[k + 2].at = cl[k].at
                               /\ cl[k + 1].at = cl[k].tok

\* a next() has skipped a line terminator and returned a token, and the parser
\* has called back() and next() again
C10_Witness ==
  LET cl == CursorLog
  IN \E k \in 1..Len(cl) :
       /\ BackNextAt(cl, k) /\ cl[k].tok = cl[k].at + 2
       /\ k + 2 = Len(cl) /\ pos = cl[k].tok

\* the invocation that called the one at level k + 1 of the stack peeked first
PeekedBeforeCall(k) ==
  /\ stack[k].proc = "ExponentiationExpression"
  /\ stack[k].pc \in {"unary_ret", "lhs_ret"}
  /\ k < Len(stack)

\* C11: peek(0) never moves the cursor: the operation after a peek finds the
\* cursor where the peek found it, a second peek returns the same token (or
\* none), and a next() after peek(0) returns the token peek(0) returned.
C11_PeekIsPure ==
  LET cl == CursorLog
      n == Len(cl)
  IN /\ \A k \in 1..n :
          (cl[k].ev = "peek" /\ k < n)
            => /\ cl[k + 1].at = cl[k].at
               /\ cl[k + 1].ev \in {"next", "expect", "peek"}
                    => cl[k + 1].tok = cl[k].tok
     /\ (n # 0 /\ cl[n].ev = "peek")
          => /\ pos = cl[n].at
             /\ peek(tokens, pos, 0) = cl[n].tok
             /\ cl[n].tok # 0 => next(tokens, pos).tok = cl[n].tok
     /\ \A k \in 1..Len(stack) :
          PeekedBeforeCall(k) => stack[k + 1].entry = stack[k].entry

\* the unary check has peeked a token, and the operand parser has then taken
\* that very token with next()
C11_Witness ==
  LET cl == CursorLog
      n == Len(cl)
  IN /\ n >= 2 /\ cl[n].ev = "next" /\ cl[n - 1].ev = "peek"
     /\ cl[n - 1].proc = "ExponentiationExpression"
     /\ cl[n].tok # 0 /\ cl[n].tok = cl[n - 1].tok

\* the stack with the running invocation gone
Popped == SubSeq(stack, 1, Len(stack) - 1)

\* the left operand is kept as UpdateExpression returned it, a token that is
\* no `**` sends the invocation to back(), and back() hands the operand to the
\* caller with the cursor where the operand parse left it
C13_Step ==
  /\ (At("ExponentiationExpression", "lhs_ret") /\ ret[1] = "Ok")
       => stack' = Goto("next", ret[2]) /\ pos' = pos /\ log' = log
  /\ (/\ At("ExponentiationExpression", "next")
      /\ peek(tokens, pos, 0) # 0 /\ tokens[peek(tokens, pos, 0)] # PExp)
       => stack' = Goto("back", Top.loc) /\ pos' = peek(tokens, pos, 0)
  /\ At("ExponentiationExpression", "back")
       => LET e == log[Len(log)]
          IN /\ e.ev = "next" /\ e.id = Top.id
             /\ ret' = Ok(Top.loc)
             /\ pos' = e.at
             /\ peek(tokens', pos', 0) = e.tok
             /\ stack' = Popped

\* C13: when the token after a parsed left operand exists and is no `**`,
\* ExponentiationExpression::parse returns the left operand unchanged and
\* leaves the cursor where the left-operand parse left it; the inspected token
\* is pushed back and is the next token the caller sees.
C13_PushBack == [][C13_Step]_vars

\* x ; : the production has returned x and `;` is the next token again
C13_Witness ==
  /\ Done /\ production = "ExponentiationExpression"
  /\ tokens = <<IdentX, PSemicolon>>
  /\ ret = Ok(Local("x")) /\ pos = 1
  /\ log[Len(log)].ev = "back"

\* the next() calls of ExponentiationExpression::parse that returned none
ExpNextNone ==
  {j \in 1..Len(log) : /\ log[j].proc = "ExponentiationExpression"
                       /\ log[j].ev = "next" /\ log[j].tok = 0}

\* after such a next() the invocation has returned, and has called no back()
C14_NoBack ==
  \A j \in ExpNextNone :
    /\ \A i \in 1..Len(log) : ~(log[i].id = log[j].id /\ log[i].ev = "back")
    /\ \A k \in 1..Len(stack) : stack[k].id # log[j].id

\* at the end of the stream the invocation returns Ok(lhs)
C14_Step ==
  (At("ExponentiationExpression", "next") /\ eof /\ peek(tokens, pos, 0) = 0)
    => ret' = Ok(Top.loc) /\ stack' = Popped

\* C14: when the stream ends right after a parsed left operand,
\* ExponentiationExpression::parse succeeds with that operand, returns no
\* diagnostic and does not call back().
C14_EndOfStream == [](C14_NoBack) /\ [][C14_Step]_vars

\* x and the end of the stream: the production has returned x
C14_Witness ==
  /\ Done /\ production = "ExponentiationExpression" /\ eof
  /\ tokens = <<IdentX>>
  /\ ret = Ok(Local("x"))
  /\ log[Len(log)].ev = "next" /\ log[Len(log)].tok = 0

\* a failed right operand fails the invocation with the same diagnostic
C15_Step ==
  (At("ExponentiationExpression", "rhs_ret") /\ ret[1] = "Err")
    => ret' = ret /\ pos' = pos /\ stack' = Popped

\* operand ** and then the end of the stream or a token that starts no operand:
\* the production has failed
C15_Failed ==
  (/\ Done /\ production = "ExponentiationExpression"
   /\ Len(Toks) >= 2 /\ IsOperand(Toks[1]) /\ Toks[2] = PExp)
    => /\ (Len(Toks) = 2 /\ eof) => ret = Err(AbruptEnd)
       /\ (Len(Toks) >= 3 /\ ~IsOperand(Toks[3]) /\ Toks[3] \notin UnaryOpTokens)
            => /\ ret[1] = "Err" /\ ret[2][1] = "Expected"
               /\ ret[2][3] = Toks[3].val

\* C15: once a `**` is consumed, a failure of the right-operand parse (the end
\* of the input after `**` included) fails the whole production with that same
\* diagnostic; the left operand or a partial node is never returned.
C15_AllOrNothing == [](C15_Failed) /\ [][C15_Step]_vars

\* x ** and the end of the stream: the production has failed with AbruptEnd
C15_Witness ==
  /\ Done /\ production = "ExponentiationExpression" /\ eof
  /\ tokens = <<IdentX, PExp>>
  /\ ret = Err(AbruptEnd)

\* the stream starts with  operand ** unary operators operand   (x ** - y ...)
IsUnaryAfterExp(ts) ==
  /\ Len(ts) >= 4 /\ IsOperand(ts[1]) /\ ts[2] = PExp
  /\ LET u == UnaryRun(ts, 3)
     IN u >= 1 /\ Len(ts) >= u + 3 /\ IsOperand(ts[u + 3])

\* the `**` tokens taken from the stream
TakenExp == {i \in Taken : i # 0 /\ tokens[i] = PExp}

\* C16: the unary check is made afresh at the entry of the recursive call: with
\* a unary operator right after a consumed `**` (x ** - y ** 1) the right
\* operand is the result of the unary-expression production, the outer call
\* returns Exp(x, that result), and no further `**` is consumed.
C16_UnaryRightOperand ==
  (Done /\ production = "ExponentiationExpression" /\ IsUnaryAfterExp(Toks))
    => LET u == UnaryRun(Toks, 3)
       IN /\ ret = Ok(bin_op("Exp", OperandNode(Toks[1]), UnaryNest(Toks, 3, u + 3)))
          /\ TakenExp = {peek(tokens, 0, 1)}
          /\ NTaken(pos) = u + 3
          /\ \E j \in 2..Len(log) :
               /\ log[j] = CallEv("UnaryExpression", j)
               /\ log[j - 1].proc = "ExponentiationExpression"
               /\ log[j - 1].ev = "peek" /\ log[j - 1].at = peek(tokens, 0, 1)

\* x ** - y ** : the production has returned Exp(x, -y), the second `**` is ahead
C16_Witness ==
  /\ Done /\ production = "ExponentiationExpression"
  /\ tokens = <<IdentX, PExp, PSub, IdentY, PExp>>
  /\ ret = Ok(bin_op("Exp", Local("x"), unary_op("-", Local("y"))))
  /\ pos = 4

\* C17: every back() comes right after a next() of the same invocation that
\* returned a token, with no cursor operation and no call in between; back()
\* is never called twice in a row and never after a next() that returned none.
C17_BackAfterNext ==
  \A j \in 1..Len(log) :
    log[j].ev = "back"
      => /\ j > 1
         /\ log[j - 1].ev = "next" /\ log[j - 1].id = log[j].id
         /\ log[j - 1].tok # 0
         /\ log[j].at = log[j - 1].tok

\* an invocation of ExponentiationExpression::parse has just called back()
C17_Witness ==
  /\ log[Len(log)].ev = "back"
  /\ log[Len(log)].proc = "ExponentiationExpression"
  /\ log[Len(log) - 1].ev = "next" /\ log[Len(log) - 1].tok # 0

\* C18: the unreachable!() arm of VariableDeclarationList::parse is never
\* executed: peek_semicolon(false) never returns (false, none), the end of the
\* stream counting as a termination.
C18_Unreachable ==
  /\ ret[1] # "Panic"
  /\ \A p \in 0..Len(tokens) :
       LET ps == peek_semicolon(tokens, p, FALSE)
       IN ps[1] \/ ps[2] # 0
  /\ \A j \in PeekSemicolons :
       log[j].tok = 0 => \A k \in 1..Len(stack) : stack[k].id # log[j].id

\* var x and the end of the stream: peek_semicolon found no token and the
\* declaration list has returned
C18_Witness ==
  /\ Done /\ production = "VariableStatement" /\ eof
  /\ tokens = <<KwVar, IdentX>>
  /\ ret = Ok(VarDecl(<< <<"x", None>> >>))
  /\ \E j \in PeekSemicolons : log[j].tok = 0

\* the calls of production proc in the log
CallsOf(proc) == {j \in 1..Len(log) : log[j].ev = "call" /\ log[j].proc = proc}
\* the event before call j took a token from the stream
TokenTakenBefore(j) ==
  /\ j > 1 /\ log[j - 1].ev \in {"next", "expect"} /\ log[j - 1].tok # 0

\* every iteration of the declarator loop but the first starts right after the
\* list has consumed a comma
C19_LoopConsumes ==
  \A j \in CallsOf("VariableDeclaration") :
    \/ log[j - 1] = CallEv("VariableDeclarationList", j - 1)
    \/ /\ TokenTakenBefore(j)
       /\ log[j - 1].proc = "VariableDeclarationList"
       /\ tokens[log[j - 1].tok] = PComma

\* every call of the exponentiation production but the outermost starts right
\* after a token was consumed, a `**` for the recursive calls
C19_RecursionConsumes ==
  /\ \A j \in CallsOf("ExponentiationExpression") :
       j > 1 => /\ TokenTakenBefore(j)
                /\ log[j - 1].proc = "ExponentiationExpression"
                     => tokens[log[j - 1].tok] = PExp
  /\ \A k \in 1..Len(stack) :
       (/\ k < Len(stack) /\ stack[k].proc = "ExponentiationExpression"
        /\ stack[k + 1].proc = "ExponentiationExpression")
         => stack[k + 1].entry > stack[k].entry

\* the iterations and the recursive calls are not more than the tokens taken
C19_Bounded ==
  /\ Cardinality(CallsOf("VariableDeclaration")) <= Cardinality(Taken \ {0})
  /\ Cardinality(CallsOf("ExponentiationExpression")) <= Cardinality(Taken \ {0}) + 1
  /\ Cardinality(Taken \ {0}) <= Len(tokens)
  /\ Len(stack) <= Len(tokens) + 3

\* a step of one of the productions
ParserStep ==
  \/ ExpStart \/ ExpUnaryRet \/ ExpLhsRet \/ ExpNext \/ ExpBack \/ ExpRhsRet
  \/ UnaryNext \/ UnaryBack \/ UnaryOperandRet \/ UnaryUpdateRet \/ UpdateParse
  \/ VarStmtExpectVar \/ VarStmtListRet \/ VarStmtSemicolon
  \/ DeclListLoop \/ DeclListDeclRet \/ DeclListPeekSemicolon \/ DeclListComma
  \/ DeclNext \/ DeclPeek \/ DeclInitRet
  \/ InitExpect \/ InitExprRet

\* a production that has not returned can take a step, once the lexer has
\* supplied the token it waits for
C19_NeverStuck ==
  ~Done => IF Starved THEN ~eof ELSE ENABLED ParserStep

\* C19: on every finite token sequence both productions end with a result or a
\* diagnostic: a production that has not returned can always take a step, and
\* each iteration of the declarator loop and each recursive right-operand call
\* consumes a token first, so their number is bounded by the number of tokens.
C19_Terminates ==
  /\ C19_NeverStuck
  /\ Done => ret[1] \in {"Ok", "Err"}
  /\ C19_LoopConsumes
  /\ C19_RecursionConsumes
  /\ C19_Bounded

\* under FairSpec every run reaches the return of the outermost call
C19_EventuallyDone == <>Done

\* var x, y and the end of the stream: the loop has run twice and has returned
C19_Witness ==
  /\ Done /\ production = "VariableStatement" /\ eof
  /\ tokens = <<KwVar, IdentX, PComma, IdentY>>
  /\ Cardinality(CallsOf("VariableDeclaration")) = 2
  /\ ret = Ok(VarDecl(<< <<"x", None>>, <<"y", None>> >>))

====
